---------------------------- MODULE Spec2Model ----------------------------
(***************************************************************************)
(* Model of the Go programs under iceberg_ops/go_sql_driver_test that run  *)
(* a query through the Databricks SQL driver, capture the query id the     *)
(* driver hands to a callback, and then ask a REST endpoint for the        *)
(* server-side record of that query:                                       *)
(*                                                                         *)
(*   query_timing.go   testUndocumentedAPI + testRESTEndpoint              *)
(*   hybrid_timing.go  executeHybridApproach + GetStatementTiming          *)
(*   enhanced_hybrid.go  main: executeGoDriverApproach,                    *)
(*                       executeRESTAPIApproach, queryHistoryCorrelation   *)
(*                                                                         *)
(* One behaviour is one run of one of the programs.  The driver, the       *)
(* result set and the REST server are the environment: what they answer is *)
(* chosen nondeterministically at the step that asks them.                 *)
(***************************************************************************)
EXTENDS Integers, Sequences, FiniteSets, TLC

VARIABLES
    prog,             \* which program this run is
    pc,               \* the statement the flow is at
    capturedQueryID,  \* var capturedQueryID string, written by queryIDCallback
    hookCalls,        \* how many times the driver invoked queryIDCallback
    idRead,           \* the values the flow read from capturedQueryID, in order
    rowsLeft,         \* rows of the open result set not yet returned by rows.Next()
    resultCount,      \* rows the flow has read from the result set
    unread,           \* rows still in the result set when it was closed
    slept,            \* milliseconds spent in time.Sleep since the query returned
    attempts,         \* the statement lookups by id (testRESTEndpoint,
                      \* GetStatementTiming) issued so far, in order
    outcome,          \* how the flow ended ("" while it runs)
    now,              \* the clock: milliseconds since the flow started
    startTime,        \* startTime := time.Now(), taken before db.QueryContext
    tReturn,          \* the clock when db.QueryContext returned (-1 before)
    endTime,          \* the clock reading the reported client duration ends at (-1 before)
    drainErr,         \* reading the rows hit an iteration or scan error
    goDriverTiming,   \* enhanced_hybrid.go main: <<>> or <<*TimingInfo>>
    restAPITiming,    \* enhanced_hybrid.go main: <<>> or <<*TimingInfo>>
    historyInfo,      \* enhanced_hybrid.go main: <<>> for nil, or <<*QueryHistoryResponse>>
    historyCalls,     \* the query-history lookups issued so far, in order
    comparison,       \* enhanced_hybrid.go main: <<>> or <<what the summary shows>>
    input,            \* a function called on its own: <<>> or <<the call>>
    result            \* <<>> or <<what that call did>>

clockVars == <<now, startTime, tReturn, endTime>>

ehVars == <<goDriverTiming, restAPITiming, historyInfo, historyCalls, comparison>>

fnVars == <<input, result>>

vars == <<prog, pc, capturedQueryID, hookCalls, idRead, rowsLeft, resultCount,
          unread, slept, attempts, outcome, clockVars, drainErr, ehVars,
          fnVars>>

---------------------------------------------------------------------------
(* Bounds of the environment. *)

\* Largest result set the driver returns.
MaxRows == 2

\* How long a call to the warehouse can take, in milliseconds.
CallMs == {115, 553}

\* How long reading the rows can take, in milliseconds.
RowMs == {0, 7}

\* Query ids the driver can assign.
QueryIDs == {"q1"}

\* Statement states the REST server can report.
TerminalStates == {"SUCCEEDED", "FAILED", "CANCELLED"}
InProgressStates == {"PENDING", "RUNNING"}
States == TerminalStates \cup InProgressStates

Programs == {"query_timing", "hybrid_timing", "enhanced_hybrid"}

---------------------------------------------------------------------------
(* What one HTTP exchange can yield.  kind "do_err": client.Do failed      *)
(* (timeout, connection error); "read_err": io.ReadAll failed; "http": a   *)
(* response arrived with status `code`; for 200, `json` says whether the   *)
(* body parses and `state` is the status it carries.                       *)

HTTPResponse(kind, code, json, state, manifest) ==
    [kind |-> kind, code |-> code, json |-> json, state |-> state,
     manifest |-> manifest]

\* Manifests a statement response can carry: <<>> when the
\* statement_response member is absent, else <<[rows, cols]>>.
Manifests ==
    {<<>>} \cup {<<[rows |-> r, chunks |-> 1, cols |-> 2]>> : r \in 0..MaxRows}

ErrorCodes == {401, 404, 500}

TransportFailures ==
    {HTTPResponse(k, 0, FALSE, "", <<>>) : k \in {"do_err", "read_err"}}

\* The timing members of a query-history body: query_start_time_ms,
\* query_end_time_ms and the duration the server reports, which need not be
\* end - start.
RawTimings ==
    {[start |-> 1000, end |-> 1000 + 115, duration |-> d] : d \in CallMs}

\* A 200 response of /sql/history/queries/{id} whose body parses.
HistoryFound(state, raw) ==
    [kind |-> "http", code |-> 200, json |-> TRUE, state |-> state,
     manifest |-> <<>>, raw |-> raw]

HistoryResponses ==
    TransportFailures
    \cup {HistoryFound(s, raw) : s \in States, raw \in RawTimings}
    \cup {HTTPResponse("http", 200, FALSE, "", <<>>)}
    \cup {HTTPResponse("http", c, FALSE, "", <<>>) : c \in ErrorCodes}

StatementResponses ==
    TransportFailures
    \cup {HTTPResponse("http", 200, TRUE, s, m) : s \in States, m \in Manifests}
    \cup {HTTPResponse("http", 200, FALSE, "", <<>>)}
    \cup {HTTPResponse("http", c, FALSE, "", <<>>) : c \in ErrorCodes}

---------------------------------------------------------------------------
(* query_timing.go: testRESTEndpoint.  It returns nothing; what it does is *)
(* print.  The result here is the line it prints for the response.         *)

Printed(line, code, status) == [line |-> line, code |-> code, status |-> status]

testRESTEndpoint(resp) ==
    IF resp.kind = "do_err" THEN Printed("request_failed", 0, "")
    ELSE IF resp.kind = "read_err" THEN Printed("read_failed", 0, "")
    ELSE IF resp.code = 200
         THEN IF ~resp.json THEN Printed("parse_failed", 200, "")
              ELSE Printed("timing_retrieved", 200, resp.state)
         ELSE Printed("api_error", resp.code, "")

\* The timing lines testRESTEndpoint prints for a parsed 200 response:
\* "Start Time", "End Time" and "Server Duration", each as received.
PrintedTiming(resp) ==
    IF resp.kind = "http" /\ resp.code = 200 /\ resp.json
    THEN <<[start |-> resp.raw.start, end |-> resp.raw.end,
            duration |-> resp.raw.duration]>>
    ELSE <<>>

(* hybrid_timing.go: GetStatementTiming.  Returns (info, err): info is     *)
(* <<>> for nil, else <<TimingInfo>>; err is "" for nil.                   *)

TimingInfo(id, state, rows, chunks, cols) ==
    [QueryID |-> id, State |-> state, RowCount |-> rows,
     ChunkCount |-> chunks, ColumnCount |-> cols]

GetStatementTiming(statementID, resp) ==
    IF resp.kind = "do_err" THEN [info |-> <<>>, err |-> "failed to make request"]
    ELSE IF resp.kind = "read_err"
         THEN [info |-> <<>>, err |-> "failed to read response body"]
    ELSE IF resp.code # 200
         THEN [info |-> <<>>, err |-> "API request failed with status"]
    ELSE IF ~resp.json THEN [info |-> <<>>, err |-> "failed to parse response"]
    ELSE IF resp.manifest = <<>>
         THEN [info |-> <<TimingInfo(statementID, resp.state, 0, 0, 0)>>, err |-> ""]
         ELSE [info |-> <<TimingInfo(statementID, resp.state,
                                     resp.manifest[1].rows,
                                     resp.manifest[1].chunks,
                                     resp.manifest[1].cols)>>,
               err |-> ""]

---------------------------------------------------------------------------
(* enhanced_hybrid.go: the records and the REST client.                    *)

\* The zero time.Time of a TimingInfo whose StartTime/EndTime were not set.
ZeroTime == -1

\* main's testQuery.
testQuery ==
    "SELECT current_timestamp() as query_time, 'enhanced_hybrid_test_12345' as message"

\* len(columns) of testQuery: query_time and message.
NumColumns == 2

\* Statement ids the server assigns to the two statements main submits over
\* REST: the test query and the history query.
RestStatementID == "s1"
HistoryStatementID == "s2"

\* n in 0..999 written with three digits.
Pad3(n) ==
    IF n < 10 THEN "00" \o ToString(n)
    ELSE IF n < 100 THEN "0" \o ToString(n) ELSE ToString(n)

\* The fraction n/1000 of a second, n in 1..999, without trailing zeros.
Frac(n) ==
    IF n % 100 = 0 THEN SubSeq(Pad3(n), 1, 1)
    ELSE IF n % 10 = 0 THEN SubSeq(Pad3(n), 1, 2)
    ELSE Pad3(n)

\* time.Duration.String() of a whole number of milliseconds below a minute.
DurationString(ms) ==
    IF ms = 0 THEN "0s"
    ELSE IF ms < 1000 THEN ToString(ms) \o "ms"
    ELSE ToString(ms \div 1000)
         \o (IF ms % 1000 = 0 THEN "" ELSE "." \o Frac(ms % 1000)) \o "s"

\* type TimingInfo struct
EH_TimingInfo(method, id, text, state, start, end, dur, ms, rows, cols, err) ==
    [Method |-> method, QueryID |-> id, StatementText |-> text,
     State |-> state, StartTime |-> start, EndTime |-> end, Duration |-> dur,
     DurationMs |-> ms, RowCount |-> rows, ColumnCount |-> cols,
     ErrorMessage |-> err]

\* &TimingInfo{Method: ..., ErrorMessage: err.Error()}: every other field
\* keeps its zero value.
ErrorOnly(method, err) ==
    EH_TimingInfo(method, "", "", "", ZeroTime, ZeroTime, "", 0, 0, 0, err)

\* What POST /api/2.0/sql/statements/ can yield: as HTTPResponse, with the
\* statement_id, status.state and manifest counts of a parsed body.
SubmitResponse(kind, code, json, id, state, rows, cols) ==
    [kind |-> kind, code |-> code, json |-> json, id |-> id, state |-> state,
     rows |-> rows, cols |-> cols]

SubmitResponses(id) ==
    {SubmitResponse(k, 0, FALSE, "", "", 0, 0) : k \in {"do_err", "read_err"}}
    \cup {SubmitResponse("http", c, TRUE, id, st, r, NumColumns) :
             c \in {200, 201}, st \in States, r \in 0..1}
    \cup {SubmitResponse("http", 200, FALSE, "", "", 0, 0)}
    \cup {SubmitResponse("http", c, FALSE, "", "", 0, 0) : c \in ErrorCodes}

\* ExecuteStatementWithREST: the request leaves at t0 and client.Do returns
\* at t1.  Returns (timingInfo, err) as GetStatementTiming does.
ExecuteStatementWithREST(statement, resp, t0, t1) ==
    IF resp.kind = "do_err" THEN [info |-> <<>>, err |-> "failed to make request"]
    ELSE IF resp.kind = "read_err"
         THEN [info |-> <<>>, err |-> "failed to read response body"]
    ELSE IF resp.code # 200 /\ resp.code # 201
         THEN [info |-> <<>>, err |-> "API request failed with status"]
    ELSE IF ~resp.json THEN [info |-> <<>>, err |-> "failed to parse response"]
    ELSE [info |-> <<EH_TimingInfo("REST_API", resp.id, statement, resp.state,
                                   t0, t1, DurationString(t1 - t0), t1 - t0,
                                   resp.rows, resp.cols, "")>>,
          err |-> ""]

\* type QueryHistoryResponse struct, the fields QueryHistoryForStatement sets
QueryHistoryResponse(id, status, start, end, ms, text) ==
    [StatementID |-> id, ExecutionStatus |-> status, StartTime |-> start,
     EndTime |-> end, TotalDurationMs |-> ms, StatementText |-> text]

\* QueryHistoryForStatement: runs historyQuery through
\* ExecuteStatementWithREST and builds its answer from that execution's
\* timingInfo; the rows the history query returned are not parsed.
QueryHistoryForStatement(resp, t0, t1) ==
    LET res == ExecuteStatementWithREST("historyQuery", resp, t0, t1) IN
    IF res.err # "" THEN [info |-> <<>>, err |-> "failed to query history"]
    ELSE [info |-> <<QueryHistoryResponse(res.info[1].QueryID,
                                          res.info[1].State,
                                          res.info[1].StartTime,
                                          res.info[1].EndTime,
                                          res.info[1].DurationMs,
                                          "historyQuery")>>,
          err |-> ""]

\* "Go Driver: %d rows, %d columns" / "REST API: %d rows, %d columns": the
\* two lines of counts a comparison prints, each <<rows, columns>>.
ResultsComparison(goRows, goCols, restRows, restCols) ==
    [GoDriver |-> <<goRows, goCols>>, RESTAPI |-> <<restRows, restCols>>]

\* abs without its negating branch.
abs_NoNegation(x) == x

\* The width the model gives the program's int64: the arithmetic below
\* wraps at IntBits bits as the program's wraps at 64.
IntBits == 12

MinInt == -(2 ^ (IntBits - 1))
MaxInt == 2 ^ (IntBits - 1) - 1

\* Two's-complement wrap-around of the result of an integer operation.
Wrap(x) == ((x - MinInt) % (2 ^ IntBits)) + MinInt

\* func abs(x int64) int64
abs(x) == IF x < 0 THEN Wrap(-x) ELSE x

---------------------------------------------------------------------------
\* The state before the first statement of a run.
Fresh ==
    /\ pc = "start"
    /\ capturedQueryID = ""
    /\ hookCalls = 0
    /\ idRead = <<>>
    /\ rowsLeft = 0
    /\ resultCount = 0
    /\ unread = 0
    /\ slept = 0
    /\ attempts = <<>>
    /\ outcome = ""
    /\ now = 0
    /\ startTime = 0
    /\ tReturn = -1
    /\ endTime = -1
    /\ drainErr = FALSE
    /\ goDriverTiming = <<>>
    /\ restAPITiming = <<>>
    /\ historyInfo = <<>>
    /\ historyCalls = <<>>
    /\ comparison = <<>>

Init ==
    /\ prog \in Programs
    /\ Fresh
    /\ input = <<>>
    /\ result = <<>>

---------------------------------------------------------------------------
(* The driver and the result set, as both programs use them.               *)

\* startTime := time.Now(); db.QueryContext is entered: the flow is inside
\* the call until it returns.
EnterQuery(p, from) ==
    /\ prog = p
    /\ pc = from
    /\ pc' = "in_query"
    /\ startTime' = now
    /\ UNCHANGED <<fnVars, prog, capturedQueryID, hookCalls, idRead, rowsLeft,
                   resultCount, unread, slept, attempts, outcome,
                   now, tReturn, endTime, drainErr, ehVars>>

\* The callback registered with NewContextWithQueryIdCallback assigns the
\* id it is given to capturedQueryID.  The driver that invokes it is not
\* part of the sources: when it does so follows the specification, which
\* has the hook fire, if at all, before or during the primary call's
\* return and never after, and has the captured identifier never change
\* once set.  On which thread the driver makes the call is not modelled.
Callback(p) ==
    /\ prog = p
    /\ pc = "in_query"
    /\ hookCalls = 0
    /\ \E id \in QueryIDs : capturedQueryID' = id
    /\ hookCalls' = hookCalls + 1
    /\ UNCHANGED <<fnVars, prog, pc, idRead, rowsLeft, resultCount, unread, slept,
                   attempts, outcome,
                   clockVars, drainErr, ehVars>>

\* The flow ends: nothing runs after the function returns.
Finish(how) ==
    /\ pc' = "done"
    /\ outcome' = how

\* db.QueryContext returns after some time; with `stamp` the flow takes its
\* end timestamp at once (endTime := time.Now()).
QueryReturns(stamp) ==
    /\ pc = "in_query"
    /\ \E d \in CallMs : now' = now + d
    /\ tReturn' = now'
    /\ endTime' = IF stamp THEN now' ELSE endTime
    /\ UNCHANGED startTime

\* db.QueryContext returns: an error, and the flow returns; or a result set
\* of up to MaxRows rows, and the flow goes on to `to`.
ReturnFromQuery(p, to, stamp) ==
    /\ prog = p
    /\ QueryReturns(stamp)
    /\ \/ /\ Finish("query_failed")
          /\ UNCHANGED rowsLeft
       \/ /\ \E n \in 0..MaxRows : rowsLeft' = n
          /\ pc' = to
          /\ UNCHANGED outcome
    /\ UNCHANGED <<fnVars, prog, capturedQueryID, hookCalls, idRead, resultCount,
                   unread, slept, attempts, drainErr, ehVars>>

\* One REST lookup issued with the captured id, and what was made of it.
Attempt(label, resp, out) ==
    [label |-> label, queryID |-> capturedQueryID, at |-> slept,
     resp |-> resp, out |-> out, timing |-> PrintedTiming(resp)]

---------------------------------------------------------------------------
(* query_timing.go: testUndocumentedAPI.                                   *)

QT == "query_timing"

QT_QueryContext == EnterQuery(QT, "start")

QT_queryIDCallback == Callback(QT)

QT_QueryReturn == ReturnFromQuery(QT, "process", FALSE)

\* if rows.Next() { rows.Scan(...) }; rows.Close();
\* executionTime := time.Since(startTime).  rows.Next() yields the first
\* row, and rows.Scan may fail on it (its error is dropped); or rows.Next()
\* returns false, at the end of the result set or on an iteration error
\* with rows still unread.  rows.Err() is not consulted.
QT_ProcessResults ==
    /\ prog = QT
    /\ pc = "process"
    /\ \/ /\ rowsLeft > 0
          /\ resultCount' = 1
          /\ \E scanErr \in BOOLEAN : drainErr' = scanErr
       \/ /\ resultCount' = 0
          /\ drainErr' = (rowsLeft > 0)
    /\ unread' = rowsLeft - resultCount'
    /\ rowsLeft' = 0
    /\ \E r \in RowMs : now' = now + r
    /\ endTime' = now'
    /\ pc' = "check_id"
    /\ UNCHANGED <<fnVars, prog, capturedQueryID, hookCalls, idRead, slept, attempts,
                   outcome, startTime, tReturn, ehVars>>

\* if capturedQueryID == "" { ...; return }
QT_CheckQueryID ==
    /\ prog = QT
    /\ pc = "check_id"
    /\ idRead' = Append(idRead, capturedQueryID)
    /\ IF capturedQueryID = ""
       THEN Finish("no_query_id")
       ELSE pc' = "try_immediate" /\ UNCHANGED outcome
    /\ UNCHANGED <<fnVars, prog, capturedQueryID, hookCalls, rowsLeft, resultCount,
                   unread, slept, attempts,
                   clockVars, drainErr, ehVars>>

\* Mutant: the final try is missing.
QT_AfterLookup_GiveUpEarly(at, out) ==
    CASE at = "try_immediate" -> "sleep_2s"
      [] at = "try_after_2s"  -> "done"
      [] at = "try_after_7s"  -> "done"

\* Mutant: a failed request ends the flow instead of being printed and
\* passed over.
QT_AfterLookup_AbortOnFailure(at, out) ==
    IF out.line \in {"request_failed", "read_failed", "api_error"}
    THEN "done"
    ELSE CASE at = "try_immediate" -> "sleep_2s"
           [] at = "try_after_2s"  -> "sleep_5s"
           [] at = "try_after_7s"  -> "done"

\* Where testUndocumentedAPI goes after the testRESTEndpoint call made at
\* `at`, which printed `out`: the next statement, whatever was printed.
QT_AfterLookup(at, out) ==
    CASE at = "try_immediate" -> "sleep_2s"
      [] at = "try_after_2s"  -> "sleep_5s"
      [] at = "try_after_7s"  -> "done"

\* testRESTEndpoint(token, hostname, capturedQueryID, label): the request
\* takes its time to be answered.
QT_Try(at, label) ==
    /\ prog = QT
    /\ pc = at
    /\ \E resp \in HistoryResponses :
         LET out == testRESTEndpoint(resp) IN
         /\ attempts' = Append(attempts, Attempt(label, resp, out))
         /\ pc' = QT_AfterLookup(at, out)
         /\ outcome' = IF pc' = "done" THEN "completed" ELSE outcome
    /\ \E d \in CallMs : now' = now + d
    /\ UNCHANGED <<fnVars, prog, capturedQueryID, hookCalls, idRead, rowsLeft,
                   resultCount, unread, slept,
                   startTime, tReturn, endTime, drainErr, ehVars>>

\* Mutant: the first lookup runs as a task of its own, started while
\* db.QueryContext is still running.
QT_TryImmediate_Concurrent ==
    /\ prog = QT
    /\ pc = "in_query"
    /\ attempts = <<>>
    /\ \E resp \in HistoryResponses :
         attempts' = Append(attempts,
                            Attempt("immediate", resp, testRESTEndpoint(resp)))
    /\ UNCHANGED <<fnVars, prog, pc, capturedQueryID, hookCalls, idRead, rowsLeft,
                   resultCount, unread, slept, outcome,
                   clockVars, drainErr, ehVars>>

QT_TryImmediate == QT_Try("try_immediate", "immediate")

QT_TryAfter2s == QT_Try("try_after_2s", "after 2s delay")

QT_TryAfter7s == QT_Try("try_after_7s", "after 7s total delay")

\* A sleep that never ends.
Sleep_NeverWakes(p, from, ms, to) ==
    /\ prog = p
    /\ pc = from
    /\ UNCHANGED vars

\* time.Sleep(d): the flow is suspended for the whole of d, and the clock
\* is d later when it goes on.
Sleep(p, from, ms, to) ==
    /\ prog = p
    /\ pc = from
    /\ slept' = slept + ms
    /\ now' = now + ms
    /\ pc' = to
    /\ UNCHANGED <<fnVars, prog, capturedQueryID, hookCalls, idRead, rowsLeft,
                   resultCount, unread, attempts, outcome,
                   startTime, tReturn, endTime, drainErr, ehVars>>

QT_Sleep2s == Sleep(QT, "sleep_2s", 2 * 1000, "try_after_2s")

QT_Sleep5s == Sleep(QT, "sleep_5s", 5 * 1000, "try_after_7s")

---------------------------------------------------------------------------
(* hybrid_timing.go: executeHybridApproach.                                *)

HT == "hybrid_timing"

\* sql.Open
HT_Open ==
    /\ prog = HT
    /\ pc = "start"
    /\ \/ Finish("open_failed")
       \/ pc' = "opened" /\ UNCHANGED outcome
    /\ UNCHANGED <<fnVars, prog, capturedQueryID, hookCalls, idRead, rowsLeft,
                   resultCount, unread, slept, attempts,
                   clockVars, drainErr, ehVars>>

HT_QueryContext == EnterQuery(HT, "opened")

HT_queryIDCallback == Callback(HT)

HT_QueryReturn == ReturnFromQuery(HT, "columns", TRUE)

\* rows.Columns(): on error the flow returns and the deferred rows.Close()
\* drops the rows.
HT_Columns ==
    /\ prog = HT
    /\ pc = "columns"
    /\ \/ /\ Finish("columns_failed")
          /\ unread' = rowsLeft
          /\ rowsLeft' = 0
       \/ /\ pc' = "drain"
          /\ UNCHANGED <<outcome, unread, rowsLeft>>
    /\ UNCHANGED <<fnVars, prog, capturedQueryID, hookCalls, idRead, resultCount,
                   slept, attempts,
                   clockVars, drainErr, ehVars>>

\* for rows.Next() { resultCount++; rows.Scan(...) }: rows.Next() yields a
\* row, and rows.Scan may fail on it (the error only suppresses the print);
\* or rows.Next() returns false: at the end of the result set, or on an
\* iteration error with rows still unread.
HT_RowsNext ==
    /\ prog = HT
    /\ pc = "drain"
    /\ \/ /\ rowsLeft > 0
          /\ resultCount' = resultCount + 1
          /\ rowsLeft' = rowsLeft - 1
          /\ \E r \in RowMs : now' = now + r
          /\ \E scanErr \in BOOLEAN : drainErr' = (drainErr \/ scanErr)
          /\ UNCHANGED <<pc, unread>>
       \/ /\ unread' = rowsLeft
          /\ drainErr' = (drainErr \/ rowsLeft > 0)
          /\ rowsLeft' = 0
          /\ pc' = "check_id"
          /\ UNCHANGED <<resultCount, now>>
    /\ UNCHANGED <<fnVars, prog, capturedQueryID, hookCalls, idRead, slept, attempts,
                   outcome, startTime, tReturn, endTime, ehVars>>

\* if capturedQueryID != "" { ... } else { "No query ID captured" }
HT_CheckQueryID ==
    /\ prog = HT
    /\ pc = "check_id"
    /\ idRead' = Append(idRead, capturedQueryID)
    /\ IF capturedQueryID = ""
       THEN Finish("no_query_id")
       ELSE pc' = "sleep_500ms" /\ UNCHANGED outcome
    /\ UNCHANGED <<fnVars, prog, capturedQueryID, hookCalls, rowsLeft, resultCount,
                   unread, slept, attempts,
                   clockVars, drainErr, ehVars>>

HT_Sleep500ms == Sleep(HT, "sleep_500ms", 500, "get_timing")

\* What executeHybridApproach prints for GetStatementTiming's result.
HT_Report(res) ==
    IF res.err # "" THEN Printed("failed_to_get_timing", 0, "")
    ELSE Printed("timing_information", 0, res.info[1].State)

\* The "Comparison:" lines executeHybridApproach prints when
\* GetStatementTiming succeeded: <<>> when it prints none.
HT_Comparison(rows, cols, res) ==
    IF res.err # "" THEN <<>>
    ELSE <<ResultsComparison(rows, cols, res.info[1].RowCount,
                             res.info[1].ColumnCount)>>

\* timingInfo, err := restClient.GetStatementTiming(capturedQueryID)
HT_GetTiming ==
    /\ prog = HT
    /\ pc = "get_timing"
    /\ \E resp \in StatementResponses :
         LET res == GetStatementTiming(capturedQueryID, resp) IN
         attempts' = Append(attempts,
            [label |-> "hybrid", queryID |-> capturedQueryID, at |-> slept,
             resp |-> resp, out |-> HT_Report(res), res |-> res,
             cmp |-> HT_Comparison(resultCount, NumColumns, res)])
    /\ \E d \in CallMs : now' = now + d
    /\ Finish("completed")
    /\ UNCHANGED <<fnVars, prog, capturedQueryID, hookCalls, idRead, rowsLeft,
                   resultCount, unread, slept,
                   startTime, tReturn, endTime, drainErr, ehVars>>

---------------------------------------------------------------------------
(* enhanced_hybrid.go: main and the three approaches it runs in turn.      *)

EH == "enhanced_hybrid"

\* sql.Open; on error executeGoDriverApproach returns a record with only
\* Method and ErrorMessage, and main goes on.
EH_Open ==
    /\ prog = EH
    /\ pc = "start"
    /\ \/ /\ goDriverTiming' = <<ErrorOnly("GO_DRIVER", "open failed")>>
          /\ pc' = "rest_api"
       \/ /\ pc' = "opened"
          /\ UNCHANGED goDriverTiming
    /\ UNCHANGED <<fnVars, prog, capturedQueryID, hookCalls, idRead, rowsLeft,
                   resultCount, unread, slept, attempts, outcome,
                   clockVars, drainErr, restAPITiming, historyInfo, historyCalls, comparison>>

EH_QueryContext == EnterQuery(EH, "opened")

EH_queryIDCallback == Callback(EH)

\* The record executeGoDriverApproach returns when db.QueryContext failed.
EH_QueryFailed(id, start, end) ==
    EH_TimingInfo("GO_DRIVER", "", testQuery, "", start, end,
                  DurationString(end - start), end - start, 0, 0,
                  "query failed")

\* rows, err := db.QueryContext(ctx, query); endTime := time.Now()
EH_QueryReturn ==
    /\ prog = EH
    /\ QueryReturns(TRUE)
    /\ \/ /\ goDriverTiming' =
                <<EH_QueryFailed(capturedQueryID, startTime, now')>>
          /\ pc' = "rest_api"
          /\ UNCHANGED rowsLeft
       \/ /\ \E n \in 0..MaxRows : rowsLeft' = n
          /\ pc' = "columns"
          /\ UNCHANGED goDriverTiming
    /\ UNCHANGED <<fnVars, prog, capturedQueryID, hookCalls, idRead, resultCount,
                   unread, slept, attempts, outcome, drainErr, restAPITiming,
                   historyInfo, historyCalls, comparison>>

\* rows.Columns(): on error the record has only Method and ErrorMessage and
\* the deferred rows.Close() drops the rows.
EH_Columns ==
    /\ prog = EH
    /\ pc = "columns"
    /\ \/ /\ goDriverTiming' = <<ErrorOnly("GO_DRIVER", "columns failed")>>
          /\ unread' = rowsLeft
          /\ rowsLeft' = 0
          /\ pc' = "rest_api"
       \/ /\ pc' = "drain"
          /\ UNCHANGED <<goDriverTiming, unread, rowsLeft>>
    /\ UNCHANGED <<fnVars, prog, capturedQueryID, hookCalls, idRead, resultCount,
                   slept, attempts, outcome, clockVars, drainErr,
                   restAPITiming, historyInfo, historyCalls, comparison>>

\* The record after the row loop, had it left QueryID out as the record of
\* a failed query does.
EH_Completed_NoQueryID(id, start, end, rows) ==
    EH_TimingInfo("GO_DRIVER", "", testQuery, "COMPLETED", start, end,
                  DurationString(end - start), end - start, rows, NumColumns,
                  "")

\* The record executeGoDriverApproach returns after the row loop.
EH_Completed(id, start, end, rows) ==
    EH_TimingInfo("GO_DRIVER", id, testQuery, "COMPLETED", start, end,
                  DurationString(end - start), end - start, rows, NumColumns,
                  "")

\* for rows.Next() { resultCount++; rows.Scan(...) }: a row is read, and
\* rows.Scan may fail on it; or rows.Next() returns false, at the end of the
\* result set or on an iteration error with rows still unread, and the
\* function returns its record.  rows.Err() is not consulted.
EH_RowsNext ==
    /\ prog = EH
    /\ pc = "drain"
    /\ \/ /\ rowsLeft > 0
          /\ resultCount' = resultCount + 1
          /\ rowsLeft' = rowsLeft - 1
          /\ \E r \in RowMs : now' = now + r
          /\ \E scanErr \in BOOLEAN : drainErr' = (drainErr \/ scanErr)
          /\ UNCHANGED <<pc, unread, idRead, goDriverTiming>>
       \/ /\ unread' = rowsLeft
          /\ drainErr' = (drainErr \/ rowsLeft > 0)
          /\ rowsLeft' = 0
          /\ idRead' = Append(idRead, capturedQueryID)
          /\ goDriverTiming' =
                <<EH_Completed(capturedQueryID, startTime, endTime, resultCount)>>
          /\ pc' = "rest_api"
          /\ UNCHANGED <<resultCount, now>>
    /\ UNCHANGED <<fnVars, prog, capturedQueryID, hookCalls, slept, attempts, outcome,
                   startTime, tReturn, endTime, restAPITiming, historyInfo, historyCalls,
                   comparison>>

\* executeRESTAPIApproach, given what ExecuteStatementWithREST returned.
executeRESTAPIApproach(res) ==
    IF res.err # "" THEN ErrorOnly("REST_API", res.err) ELSE res.info[1]

\* The REST step, had executeRESTAPIApproach returned nil on an error as
\* queryHistoryCorrelation does.
EH_RESTAPI_NilOnError ==
    /\ prog = EH
    /\ pc = "rest_api"
    /\ \E d \in CallMs : now' = now + d
    /\ \E resp \in SubmitResponses(RestStatementID) :
         restAPITiming' =
             ExecuteStatementWithREST(testQuery, resp, now, now').info
    /\ pc' = "history"
    /\ UNCHANGED <<fnVars, prog, capturedQueryID, hookCalls, idRead, rowsLeft,
                   resultCount, unread, slept, attempts, outcome, startTime,
                   tReturn, endTime, drainErr, goDriverTiming, historyInfo, historyCalls,
                   comparison>>

\* restAPITiming := executeRESTAPIApproach(restClient, testQuery)
EH_RESTAPI ==
    /\ prog = EH
    /\ pc = "rest_api"
    /\ \E d \in CallMs : now' = now + d
    /\ \E resp \in SubmitResponses(RestStatementID) :
         restAPITiming' = <<executeRESTAPIApproach(
             ExecuteStatementWithREST(testQuery, resp, now, now'))>>
    /\ pc' = "history"
    /\ UNCHANGED <<fnVars, prog, capturedQueryID, hookCalls, idRead, rowsLeft,
                   resultCount, unread, slept, attempts, outcome, startTime,
                   tReturn, endTime, drainErr, goDriverTiming, historyInfo, historyCalls,
                   comparison>>

\* strings.Split(s, sep) for a separator of one character: the pieces of s
\* between the separators, one more than there are separators.
Split(s, sep) ==
    LET at == {i \in 1..Len(s) : SubSeq(s, i, i) = sep}
        n == Cardinality(at)
        Nth(k) == CHOOSE i \in at : Cardinality({j \in at : j < i}) = k - 1
        First(k) == IF k = 1 THEN 1 ELSE Nth(k - 1) + 1
        Last(k) == IF k = n + 1 THEN Len(s) ELSE Nth(k) - 1
    IN  [k \in 1..(n + 1) |->
            IF First(k) > Last(k) THEN "" ELSE SubSeq(s, First(k), Last(k))]

\* strings.Split(query, "'")[1], the message queryHistoryCorrelation prints
\* first: indexing past the end of the slice panics.
ExtractMessage(query) ==
    LET parts == Split(query, "'") IN
    IF Len(parts) >= 2 THEN [panic |-> FALSE, msg |-> parts[2]]
    ELSE [panic |-> TRUE, msg |-> ""]

\* queryHistoryCorrelation, given what QueryHistoryForStatement returned:
\* nil on error.
queryHistoryCorrelation(res) == IF res.err # "" THEN <<>> ELSE res.info

\* A call of restClient.QueryHistoryForStatement(statementText, afterTime):
\* the statement text it searches the history for, and the value
\* capturedQueryID has when the call is made.  The id is no argument of
\* the call.
HistoryCall(query) == [statement |-> query, captured |-> capturedQueryID]

\* The history step, had it ended the program (log.Fatal) when the lookup
\* failed.
EH_QueryHistory_AbortOnFailure ==
    /\ prog = EH
    /\ pc = "history"
    /\ ~ExtractMessage(testQuery).panic
    /\ \E d \in CallMs : now' = now + d
    /\ \E resp \in SubmitResponses(HistoryStatementID) :
         historyInfo' =
             queryHistoryCorrelation(QueryHistoryForStatement(resp, now, now'))
    /\ historyCalls' = Append(historyCalls, HistoryCall(testQuery))
    /\ IF historyInfo' = <<>>
       THEN Finish("history_failed")
       ELSE pc' = "compare" /\ UNCHANGED outcome
    /\ UNCHANGED <<fnVars, prog, capturedQueryID, hookCalls, idRead, rowsLeft,
                   resultCount, unread, slept, attempts, startTime,
                   tReturn, endTime, drainErr, goDriverTiming, restAPITiming,
                   comparison>>

\* historyInfo := queryHistoryCorrelation(restClient, testQuery, ...): main
\* makes the call whatever executeGoDriverApproach returned, with or
\* without a captured id.
EH_QueryHistory ==
    /\ prog = EH
    /\ pc = "history"
    /\ IF ExtractMessage(testQuery).panic
       THEN /\ Finish("panic")
            /\ UNCHANGED <<now, historyInfo, historyCalls>>
       ELSE /\ \E d \in CallMs : now' = now + d
            /\ \E resp \in SubmitResponses(HistoryStatementID) :
                 historyInfo' = queryHistoryCorrelation(
                     QueryHistoryForStatement(resp, now, now'))
            /\ historyCalls' = Append(historyCalls, HistoryCall(testQuery))
            /\ pc' = "compare"
            /\ UNCHANGED outcome
    /\ UNCHANGED <<fnVars, prog, capturedQueryID, hookCalls, idRead, rowsLeft,
                   resultCount, unread, slept, attempts, startTime,
                   tReturn, endTime, drainErr, goDriverTiming, restAPITiming,
                   comparison>>

\* The comparison, had it printed the Go driver's counts on both lines.
TimingComparison_Reconciled(go, rest, history) ==
    [GoDriverTiming |-> go, RESTAPITiming |-> rest,
     QueryHistoryInfo |-> history,
     Difference |-> abs(Wrap(go.DurationMs - rest.DurationMs)),
     Results |-> ResultsComparison(go.RowCount, go.ColumnCount,
                                   go.RowCount, go.ColumnCount)]

\* comparison := TimingComparison{...} and the summary main prints, with
\* its "Difference: %dms" line and its "Results Comparison" lines.
TimingComparison(go, rest, history) ==
    [GoDriverTiming |-> go, RESTAPITiming |-> rest,
     QueryHistoryInfo |-> history,
     Difference |-> abs(Wrap(go.DurationMs - rest.DurationMs)),
     Results |-> ResultsComparison(go.RowCount, go.ColumnCount,
                                   rest.RowCount, rest.ColumnCount)]

EH_Compare ==
    /\ prog = EH
    /\ pc = "compare"
    /\ comparison' = <<TimingComparison(goDriverTiming[1], restAPITiming[1],
                                        historyInfo)>>
    /\ Finish("compared")
    /\ UNCHANGED <<fnVars, prog, capturedQueryID, hookCalls, idRead, rowsLeft,
                   resultCount, unread, slept, attempts, clockVars, drainErr,
                   goDriverTiming, restAPITiming, historyInfo, historyCalls>>

---------------------------------------------------------------------------
Next ==
    \/ QT_QueryContext
    \/ QT_queryIDCallback
    \/ QT_QueryReturn
    \/ QT_ProcessResults
    \/ QT_CheckQueryID
    \/ QT_TryImmediate
    \/ QT_Sleep2s
    \/ QT_TryAfter2s
    \/ QT_Sleep5s
    \/ QT_TryAfter7s
    \/ HT_Open
    \/ HT_QueryContext
    \/ HT_queryIDCallback
    \/ HT_QueryReturn
    \/ HT_Columns
    \/ HT_RowsNext
    \/ HT_CheckQueryID
    \/ HT_Sleep500ms
    \/ HT_GetTiming
    \/ EH_Open
    \/ EH_QueryContext
    \/ EH_queryIDCallback
    \/ EH_QueryReturn
    \/ EH_Columns
    \/ EH_RowsNext
    \/ EH_RESTAPI
    \/ EH_QueryHistory
    \/ EH_Compare

Spec == Init /\ [][Next]_vars

---------------------------------------------------------------------------
(* Functions of the programs called on their own, with any argument of   *)
(* their type: one behaviour is one call.                                  *)

\* Timeout of the http.Client and wait_timeout of the submit request, in
\* seconds, of the two REST clients.
HT_ClientTimeout == 30
HT_WaitTimeout == 30
EH_ClientTimeout == 60
EH_WaitTimeout == 50

RESTClients ==
    {[name |-> HT, timeout |-> HT_ClientTimeout, wait |-> HT_WaitTimeout],
     [name |-> EH, timeout |-> EH_ClientTimeout, wait |-> EH_WaitTimeout]}

\* Time a response spends on the network, in milliseconds.
LatencyMs == 1

\* httpClient.Do for a response the server sends serverMs after the request:
\* the client gives up when its Timeout has passed before the response is in.
ClientDo(serverMs, timeoutS) ==
    IF serverMs + LatencyMs >= timeoutS * 1000 THEN "do_err" ELSE "http"

\* Query texts queryHistoryCorrelation can be given.
Queries == {testQuery, "SELECT 1 as test_column", "it's", ""}

FnInputs ==
    {[fn |-> "abs", x |-> x] : x \in MinInt..MaxInt}
    \cup {[fn |-> "queryHistoryCorrelation", query |-> q, resp |-> r] :
             q \in Queries, r \in SubmitResponses(HistoryStatementID)}
    \cup {[fn |-> "ExecuteStatementWithREST", client |-> c, serverMs |-> t] :
             c \in RESTClients, t \in {0, 115, 30 * 1000 - 1, 30 * 1000}}

FnInit ==
    /\ prog = "function"
    /\ Fresh
    /\ input \in {<<i>> : i \in FnInputs}
    /\ result = <<>>

\* The call is made: `does` is what it does, a panic or a return value.
Call(fn, does) ==
    /\ input # <<>>
    /\ input[1].fn = fn
    /\ result = <<>>
    /\ result' = <<does>>
    /\ UNCHANGED <<input, prog, pc, capturedQueryID, hookCalls, idRead,
                   rowsLeft, resultCount, unread, slept, attempts, outcome,
                   clockVars, drainErr, ehVars>>

Returns(v) == [panic |-> FALSE, ret |-> v]
Panics == [panic |-> TRUE, ret |-> <<>>]

Fn_abs == Call("abs", Returns(abs(input[1].x)))

Fn_queryHistoryCorrelation ==
    Call("queryHistoryCorrelation",
         IF ExtractMessage(input[1].query).panic THEN Panics
         ELSE Returns(queryHistoryCorrelation(
                  QueryHistoryForStatement(input[1].resp, 0, 115))))

Fn_ExecuteStatementWithREST ==
    Call("ExecuteStatementWithREST",
         Returns(ClientDo(input[1].serverMs, input[1].client.timeout)))

FnNext ==
    \/ Fn_abs
    \/ Fn_queryHistoryCorrelation
    \/ Fn_ExecuteStatementWithREST

FnSpec == FnInit /\ [][FnNext]_vars

\* Every call the flow makes returns (the result, an error, or the HTTP
\* client's timeout) and every sleep ends: the flow takes its next step.
LiveSpec == Init /\ [][Next]_vars /\ WF_vars(Next)

---------------------------------------------------------------------------
(* Vocabulary of the properties below.                                     *)

\* The number of lookups testUndocumentedAPI makes: its three
\* testRESTEndpoint calls.
N_max == 3

\* Lookups each program has to spend.
AttemptBudget(p) == IF p = QT THEN N_max ELSE 1

Done == pc = "done"

\* The flow is before or inside db.QueryContext: the call has not returned.
PrimaryNotReturned == pc \in {"start", "opened", "in_query"}

IsHTTP(a, code) == a.resp.kind = "http" /\ a.resp.code = code

\* The server had no record for the id.
NotFound(a) == IsHTTP(a, 404)

\* The server answered with the record.
Found(a) == IsHTTP(a, 200) /\ a.resp.json

FoundTerminal(a) == Found(a) /\ a.resp.state \in TerminalStates

FoundInProgress(a) == Found(a) /\ a.resp.state \in InProgressStates

\* Authentication failure: a 4xx other than not-found.
Fatal(a) == IsHTTP(a, 401)

\* Timeout, connection error, broken body, 5xx.
Transient(a) == a.resp.kind \in {"do_err", "read_err"} \/ IsHTTP(a, 500)

\* The flow printed the lookup as a success (the lines starting with the
\* check mark) or as an error (the lines starting with the cross).
ReportedSuccess(a) == a.out.line \in {"timing_retrieved", "timing_information"}

ReportedError(a) == ~ReportedSuccess(a)

CorrelationSucceeded == \E i \in DOMAIN attempts : ReportedSuccess(attempts[i])

---------------------------------------------------------------------------
\* C1: a lookup that returns FOUND with a terminal status is the last one:
\* the flow issues no lookup after it (NOT_FOUND then FOUND+terminal gives
\* exactly 2 attempts).
C1_StopsOnTerminalFound ==
    \A i \in DOMAIN attempts :
        FoundTerminal(attempts[i]) => Len(attempts) = i

\* C2: the flow never issues more than N_max lookups; when every lookup of
\* testUndocumentedAPI returns NOT_FOUND, it issues exactly N_max of them
\* and none is reported as a success.
C2_AttemptsBounded ==
    /\ Len(attempts) <= N_max
    /\ (/\ prog = QT
        /\ Done
        /\ attempts # <<>>
        /\ \A i \in DOMAIN attempts : NotFound(attempts[i]))
       => (Len(attempts) = N_max /\ ~CorrelationSucceeded)

C2_Witness ==
    /\ prog = QT
    /\ Done
    /\ Len(attempts) = N_max
    /\ \A i \in DOMAIN attempts : NotFound(attempts[i])

\* C3: with no captured identifier (capturedQueryID is "") the flow issues
\* no lookup, by id or in the query history, whether the query failed or
\* succeeded; it does not reach a lookup or the delay before one, and it
\* ends with no telemetry record and not as a completed correlation.
C3_NoIdNoLookup ==
    capturedQueryID = ""
        => /\ attempts = <<>>
           /\ historyCalls = <<>>
           /\ historyInfo = <<>>
           /\ pc \notin {"try_immediate", "sleep_2s", "try_after_2s",
                         "sleep_5s", "try_after_7s", "sleep_500ms",
                         "get_timing"}
           /\ Done => outcome # "completed"

\* C4: a lookup that fails with a fatal telemetry error (401) is the last
\* one: the flow issues no lookup after it.
C4_StopsOnFatal ==
    \A i \in DOMAIN attempts : Fatal(attempts[i]) => Len(attempts) = i

\* C5: a lookup is reported as a success only when the record it found has
\* a terminal status; a record still PENDING or RUNNING is not a success.
C5_SuccessOnlyTerminal ==
    \A i \in DOMAIN attempts :
        ReportedSuccess(attempts[i]) => FoundTerminal(attempts[i])

\* C6: with an overall deadline of 1 second, the flow issues no second
\* lookup once its 2 second delay has run past the deadline.
C6_AbortsAtDeadline ==
    slept > 1 * 1000 => Len(attempts) <= 1

\* C7: no lookup is issued before db.QueryContext has returned.
C7_LookupAfterPrimaryReturn ==
    /\ attempts # <<>> => ~PrimaryNotReturned
    /\ pc \in {"try_immediate", "get_timing"} => attempts = <<>>

C7_Witness ==
    /\ Len(attempts) = 1
    /\ hookCalls = 1
    /\ attempts[1].at = 0
    /\ ~PrimaryNotReturned

C10_NotFoundIsNoError ==
    \A i \in DOMAIN attempts :
        NotFound(attempts[i])
            => /\ ~ReportedError(attempts[i])
               /\ prog = HT => attempts[i].res.err = ""

---------------------------------------------------------------------------
(* Vocabulary for enhanced_hybrid.go: goDriverTiming is the primary        *)
(* execution's record, restAPITiming the record of the submit-and-wait     *)
(* run, historyInfo what the correlation returned.                         *)

Range(seq) == {seq[i] : i \in DOMAIN seq}

\* The primary execution's record says it failed / succeeded.
PrimaryFailed(r) == r.ErrorMessage # ""
PrimarySucceeded(r) == r.ErrorMessage = "" /\ r.State = "COMPLETED"

\* A record without a duration: its Duration was never set.
LacksDuration(r) == r.Duration = ""

\* C11: when the correlation did not succeed (queryHistoryCorrelation
\* returned nil; every lookup of the other programs failed), the flow still
\* ends normally: main builds its comparison with the primary record in it
\* and the history part absent.
C11_PartialResultWithoutTelemetry ==
    /\ (prog = EH /\ Done /\ historyInfo = <<>>)
          => /\ outcome = "compared"
             /\ comparison # <<>>
             /\ comparison[1].GoDriverTiming = goDriverTiming[1]
             /\ comparison[1].QueryHistoryInfo = <<>>
    /\ (prog # EH /\ Done /\ attempts # <<>> /\ ~CorrelationSucceeded)
          => outcome = "completed"

C11_Witness ==
    /\ prog = EH
    /\ Done
    /\ historyInfo = <<>>
    /\ PrimarySucceeded(goDriverTiming[1])
    /\ comparison[1].GoDriverTiming = goDriverTiming[1]
    /\ comparison[1].QueryHistoryInfo = <<>>

\* C12: when db.QueryContext fails after the callback delivered an id, the
\* record executeGoDriverApproach returns carries that id.
C12_FailedRecordKeepsQueryID ==
    \A r \in Range(goDriverTiming) :
        (PrimaryFailed(r) /\ hookCalls > 0) => r.QueryID = capturedQueryID

\* C13: when reading the rows hit an iteration or scan error, the primary
\* execution's record says it failed, never that it completed; a flow that
\* keeps no record ends as a failed query and goes on to no lookup.
C13_DrainErrorIsFailure ==
    /\ \A r \in Range(goDriverTiming) :
          drainErr => (PrimaryFailed(r) /\ r.State # "COMPLETED")
    /\ (prog \in {QT, HT} /\ drainErr /\ pc # "drain")
          => (Done /\ outcome = "query_failed")

\* C14: after a failed primary execution the flow stops: no submit-and-wait
\* run is made and no comparison is produced.
C14_FailedPrimaryAborts ==
    /\ \A r \in Range(goDriverTiming) :
          PrimaryFailed(r) => (restAPITiming = <<>> /\ comparison = <<>>)
    /\ outcome \in {"open_failed", "query_failed", "columns_failed"}
          => attempts = <<>>

RowsDone ==
    /\ pc \notin {"start", "opened", "in_query", "process", "columns", "drain"}
    /\ outcome \notin {"open_failed", "query_failed", "columns_failed"}
    /\ prog = EH => PrimarySucceeded(goDriverTiming[1])

\* C16: a successful primary execution has read every row of the result
\* set when it closes it, and the row count it reports is the number of
\* rows of the result.
C16_DrainsToExhaustion ==
    RowsDone
        => /\ unread = 0
           /\ prog = EH => goDriverTiming[1].RowCount = resultCount + unread

\* C17: the start timestamp is the clock when db.QueryContext is entered,
\* and the end timestamp of the reported duration is the clock when it
\* returned: the duration includes no time spent reading rows.
C17_DurationEndsAtReturn ==
    /\ tReturn # -1 => startTime <= tReturn
    /\ endTime # -1 => endTime = tReturn
    /\ \A r \in Range(goDriverTiming) :
          ~LacksDuration(r) => r.DurationMs = tReturn - startTime

\* C18: when the flow has ended with the correlation reported as
\* succeeded, the telemetry record has a non-empty id, and it is the record
\* looked up under the id the primary execution captured.
C18_TelemetryKeyedByCapturedID ==
    Done =>
        /\ \A i \in DOMAIN attempts :
              ReportedSuccess(attempts[i])
                  => /\ attempts[i].queryID = capturedQueryID
                     /\ capturedQueryID # ""
                     /\ prog = HT
                          => attempts[i].res.info[1].QueryID = capturedQueryID
        /\ \A h \in Range(historyInfo) :
              /\ h.StatementID # ""
              /\ h.StatementID = goDriverTiming[1].QueryID

\* The absolute difference of two durations, by cases.
Distance(a, b) == IF a >= b THEN a - b ELSE b - a

\* C19: when both records have a duration, the difference main reports is
\* the absolute value of (Go driver duration - REST duration): 553 ms and
\* 115 ms give 438 ms, and so do 115 ms and 553 ms.
C19_DeltaIsAbsoluteDifference ==
    \A c \in Range(comparison) :
        (~LacksDuration(c.GoDriverTiming) /\ ~LacksDuration(c.RESTAPITiming))
            => LET p == c.GoDriverTiming.DurationMs
                   t == c.RESTAPITiming.DurationMs
               IN  /\ c.Difference = Distance(p, t)
                   /\ c.Difference =
                        TimingComparison(c.RESTAPITiming, c.GoDriverTiming,
                                         c.QueryHistoryInfo).Difference
                   /\ ({p, t} = {553, 115}) => c.Difference = 438

C19_Witness ==
    /\ comparison # <<>>
    /\ comparison[1].GoDriverTiming.DurationMs = 553
    /\ comparison[1].RESTAPITiming.DurationMs = 115
    /\ comparison[1].RESTAPITiming.Duration = "115ms"
    /\ comparison[1].Difference = 438

\* C20: when either record has no duration, main reports no number as the
\* difference: it does not compute one with the missing duration as zero.
C20_NoDeltaWithoutDuration ==
    \A c \in Range(comparison) :
        (LacksDuration(c.GoDriverTiming) \/ LacksDuration(c.RESTAPITiming))
            => c.Difference \notin Int

---------------------------------------------------------------------------
\* The two rows counts, and the two column counts, of a printed comparison
\* are the same.
RowCountAgreement(r) == r.GoDriver[1] = r.RESTAPI[1]
ColumnCountAgreement(r) == r.GoDriver[2] = r.RESTAPI[2]

\* C21: a comparison prints each record's own row and column counts, so
\* the counts agree on the page exactly when the records' counts are equal
\* and a mismatch shows both values; the counts of neither record are
\* changed to match the other's.
C21_CountsReportedAsTheyAre ==
    /\ \A c \in Range(comparison) :
          /\ c.Results.GoDriver = <<goDriverTiming[1].RowCount,
                                    goDriverTiming[1].ColumnCount>>
          /\ c.Results.RESTAPI = <<restAPITiming[1].RowCount,
                                   restAPITiming[1].ColumnCount>>
          /\ RowCountAgreement(c.Results)
                <=> goDriverTiming[1].RowCount = restAPITiming[1].RowCount
          /\ ColumnCountAgreement(c.Results)
                <=> goDriverTiming[1].ColumnCount = restAPITiming[1].ColumnCount
          /\ PrimarySucceeded(goDriverTiming[1])
                => goDriverTiming[1].RowCount = resultCount
    /\ prog = HT =>
          \A i \in DOMAIN attempts : \A r \in Range(attempts[i].cmp) :
              /\ r.GoDriver = <<resultCount, NumColumns>>
              /\ r.RESTAPI = <<attempts[i].res.info[1].RowCount,
                               attempts[i].res.info[1].ColumnCount>>
              /\ attempts[i].resp.manifest # <<>>
                    => r.RESTAPI[1] = attempts[i].resp.manifest[1].rows

C21_Witness ==
    /\ prog = EH
    /\ comparison # <<>>
    /\ PrimarySucceeded(goDriverTiming[1])
    /\ restAPITiming[1].ErrorMessage = ""
    /\ comparison[1].Results.GoDriver = <<2, 2>>
    /\ comparison[1].Results.RESTAPI = <<1, 2>>
    /\ ~RowCountAgreement(comparison[1].Results)
    /\ ColumnCountAgreement(comparison[1].Results)

\* The delay that precedes lookup i: the time slept since the previous
\* lookup, or since db.QueryContext returned.
DelayBefore(i) == attempts[i].at - (IF i = 1 THEN 0 ELSE attempts[i - 1].at)

\* C23: the delays before successive lookups are strictly increasing, and
\* the first lookup follows the primary execution with no delay (0 s, then
\* 2 s, then 5 s).
C23_DelaysIncreasing ==
    /\ \A i \in DOMAIN attempts : i > 1 => DelayBefore(i) > DelayBefore(i - 1)
    /\ attempts # <<>> => DelayBefore(1) = 0

\* C24: every run ends, after at most N_max lookups, whatever the lookups
\* answer, given that each call returns and each sleep ends.
C24_Terminates == <>[](Done /\ Len(attempts) <= N_max)

C24_Witness ==
    /\ Done
    /\ Len(attempts) = N_max
    /\ slept = 7 * 1000
    /\ \A i \in DOMAIN attempts : ~ReportedSuccess(attempts[i])

\* C25: the record QueryHistoryForStatement returns describes the statement
\* that was looked up, not the history query it submitted to look it up,
\* and not the submit-and-wait run of the comparison.
C25_HistoryDescribesLookedUpStatement ==
    \A h \in Range(historyInfo) :
        /\ h.StatementText = testQuery
        /\ h.StatementID # HistoryStatementID
        /\ h.StatementID # RestStatementID

\* C26: the duration of every record is its end minus its start, and a
\* duration the server reports is not shown as the record's duration when
\* it is not end - start.
C26_DurationIsEndMinusStart ==
    /\ \A r \in Range(goDriverTiming) \cup Range(restAPITiming) :
          r.DurationMs = r.EndTime - r.StartTime
    /\ \A h \in Range(historyInfo) :
          h.TotalDurationMs = h.EndTime - h.StartTime
    /\ prog = QT =>
          \A i \in DOMAIN attempts : \A t \in Range(attempts[i].timing) :
              t.duration = t.end - t.start

\* C27: queryHistoryCorrelation does not fail with an index out of range,
\* whatever query text it is given, with or without a single quote in it.
C27_NoIndexOutOfRange ==
    \A r \in Range(result) :
        input[1].fn = "queryHistoryCorrelation" => ~r.panic

\* C28: executeGoDriverApproach and executeRESTAPIApproach return a record
\* on every path, so main has both records when it compares; only the
\* history record can be nil.
C28_RecordsNeverNil ==
    prog = EH =>
        /\ pc \in {"rest_api", "history", "compare", "done"}
              => goDriverTiming # <<>>
        /\ pc \in {"history", "compare", "done"} => restAPITiming # <<>>
        /\ Done => (outcome = "compared" /\ comparison # <<>>)

C28_Witness ==
    /\ prog = EH
    /\ Done
    /\ goDriverTiming[1].ErrorMessage = "open failed"
    /\ restAPITiming[1].ErrorMessage = "failed to make request"
    /\ historyInfo = <<>>
    /\ comparison # <<>>

\* C29: each REST client's HTTP timeout is longer than the wait_timeout it
\* sends, so a response to a statement the server finished within
\* wait_timeout is not cut off by the client.
C29_ClientOutwaitsServer ==
    /\ \A c \in RESTClients : c.timeout > c.wait
    /\ \A r \in Range(result) :
          (/\ input[1].fn = "ExecuteStatementWithREST"
           /\ input[1].serverMs <= input[1].client.wait * 1000)
              => r.ret # "do_err"

\* C30: abs returns a value that is not negative, for every integer of its
\* type, the smallest included; the difference main prints is not negative.
C30_AbsNotNegative ==
    /\ \A r \in Range(result) : input[1].fn = "abs" => r.ret >= 0
    /\ \A c \in Range(comparison) : c.Difference >= 0

=============================================================================
